---- MODULE Spec2Model ----
(***************************************************************************)
(* Workout-logging service: the use-case layer (WorkoutManager) over the   *)
(* repository contract.  The store is the in-memory repository             *)
(* (MockWorkoutRepository); the listing query of the storage-backed        *)
(* repository (GORMRepository.ListWorkouts) is modelled over the same      *)
(* rows.  Each handler is one atomic action.                               *)
(***************************************************************************)
EXTENDS Integers, Sequences, FiniteSets, TLC

(***************************************************************************)
(* Bounds of the model.                                                    *)
(***************************************************************************)
\* number of records the lifecycle specifications create
MaxWorkouts == 2
\* number of Create, Update and Delete calls of a run
MaxClock == 4

(***************************************************************************)
(* domain/enums.go                                                         *)
(***************************************************************************)
WorkoutStatusPlanned == 0
WorkoutStatusInProgress == 1
WorkoutStatusCompleted == 2
WorkoutStatusSkipped == 3

DifficultyBeginner == 0
DifficultyIntermediate == 1
DifficultyAdvanced == 2
DifficultyBeast == 3

Unspecified == 0
Chest == 1

ExerciseUnspecified == 0
BenchPress == 1
Squat == 2

\* defaults of CreateWorkout
DefaultSets == 3
DefaultReps == 10
DefaultWeight == 0

\* value domains the requests are drawn from
ExerciseTypes == {ExerciseUnspecified, BenchPress, Squat}
Statuses == {WorkoutStatusPlanned, WorkoutStatusInProgress, WorkoutStatusCompleted, WorkoutStatusSkipped}
Difficulties == {DifficultyBeginner, DifficultyIntermediate, DifficultyAdvanced, DifficultyBeast}
MuscleGroups == {Unspecified, Chest}
Texts == {"", "a"}
SetsValues == {-5, 0, 5}
RepsValues == {-10, 0, 8}
WeightValues == {-50, 0, 50}

\* a nilable pointer: <<>> is nil, <<v>> points to v
Nil == <<>>
Ptr(v) == <<v>>
IsNil(p) == Len(p) = 0
Deref(p) == p[1]
Opt(S) == {Nil} \cup {Ptr(v) : v \in S}

\* the zero time.Time / a nil *time.Time
NoTime == 0

VARIABLES
  workouts,   \* MockWorkoutRepository.workouts: WorkoutID -> Workout
  nextID,     \* MockWorkoutRepository.nextID
  now,        \* the reading of time.Now(): one tick per Create, Update or Delete call
  created,    \* history: the number of CreateWorkout calls that succeeded
  deleted,    \* history: identifiers whose DeleteWorkout succeeded
  last,       \* history: the last handler run, its request and its result
  tasks       \* the handler calls running concurrently: position, request, fetched record

vars == <<workouts, nextID, now, created, deleted, last, tasks>>

(***************************************************************************)
(* Errors.  kind "none" is a nil error; fields lists the violations a      *)
(* validation error carries, in the order they were collected.             *)
(***************************************************************************)
NoError == [kind |-> "none", fields |-> <<>>]
Err(k) == [kind |-> k, fields |-> <<>>]

\* errValidator.error
errValidatorError(errors) ==
  IF Len(errors) = 0 THEN NoError
  ELSE [kind |-> "validation", fields |-> errors]

\* WorkoutManager.validateWorkoutDataWithErrValidator
validateWorkoutDataWithErrValidator(workout) ==
  errValidatorError(
       (IF workout.Sets < 0 THEN <<"sets">> ELSE <<>>)
    \o (IF workout.Reps < 0 THEN <<"reps">> ELSE <<>>)
    \o (IF workout.Weight < 0 THEN <<"weight">> ELSE <<>>))

validateUpdateInput_numbersUnchecked(id, exerciseType, sets, reps, weight) ==
  IF id <= 0 THEN [kind |-> "validation", fields |-> <<"id">>]
  ELSE IF exerciseType = ExerciseUnspecified THEN [kind |-> "validation", fields |-> <<"exercise_type">>]
  ELSE NoError

validateUpdateInput_kindUnchecked(id, exerciseType, sets, reps, weight) ==
  IF id <= 0 THEN [kind |-> "validation", fields |-> <<"id">>]
  ELSE IF ~IsNil(sets) /\ Deref(sets) < 0 THEN [kind |-> "validation", fields |-> <<"sets">>]
  ELSE IF ~IsNil(reps) /\ Deref(reps) < 0 THEN [kind |-> "validation", fields |-> <<"reps">>]
  ELSE IF ~IsNil(weight) /\ Deref(weight) < 0 THEN [kind |-> "validation", fields |-> <<"weight">>]
  ELSE NoError

\* WorkoutManager.validateUpdateInput: the first violation only
validateUpdateInput(id, exerciseType, sets, reps, weight) ==
  IF id <= 0 THEN [kind |-> "validation", fields |-> <<"id">>]
  ELSE IF exerciseType = ExerciseUnspecified THEN [kind |-> "validation", fields |-> <<"exercise_type">>]
  ELSE IF ~IsNil(sets) /\ Deref(sets) < 0 THEN [kind |-> "validation", fields |-> <<"sets">>]
  ELSE IF ~IsNil(reps) /\ Deref(reps) < 0 THEN [kind |-> "validation", fields |-> <<"reps">>]
  ELSE IF ~IsNil(weight) /\ Deref(weight) < 0 THEN [kind |-> "validation", fields |-> <<"weight">>]
  ELSE NoError

\* WorkoutManager.validateUpdateInputWithErrValidator: every violation; no
\* handler calls it
validateUpdateInputWithErrValidator(id, exerciseType, sets, reps, weight) ==
  errValidatorError(
       (IF id <= 0 THEN <<"id">> ELSE <<>>)
    \o (IF exerciseType = ExerciseUnspecified THEN <<"exercise_type">> ELSE <<>>)
    \o (IF ~IsNil(sets) /\ Deref(sets) < 0 THEN <<"sets">> ELSE <<>>)
    \o (IF ~IsNil(reps) /\ Deref(reps) < 0 THEN <<"reps">> ELSE <<>>)
    \o (IF ~IsNil(weight) /\ Deref(weight) < 0 THEN <<"weight">> ELSE <<>>))

isValidWorkout_kindOnly(workout) == workout.ExerciseType # ExerciseUnspecified

\* WorkoutManager.isValidWorkout
isValidWorkout(workout) ==
  /\ workout.ExerciseType # ExerciseUnspecified
  /\ workout.ID > 0

(***************************************************************************)
(* MockWorkoutRepository                                                   *)
(***************************************************************************)
\* a map with key id set to w
MapPut(m, id, w) == [k \in DOMAIN m \cup {id} |-> IF k = id THEN w ELSE m[k]]
\* a map without key id
MapDelete(m, id) == [k \in DOMAIN m \ {id} |-> m[k]]

\* MockWorkoutRepository.GetWorkoutByID: the error
RepoGetErr(m, id) == IF id \in DOMAIN m THEN NoError ELSE Err("not_found")

MockMatches_ignoresDifficulty(w, statusFilter, difficultyFilter, muscleGroupFilter) ==
  /\ IsNil(statusFilter) \/ w.Status = Deref(statusFilter)
  /\ IsNil(muscleGroupFilter) \/ w.MuscleGroup = Deref(muscleGroupFilter)

\* the filter predicate of MockWorkoutRepository.ListWorkouts
MockMatches(w, statusFilter, difficultyFilter, muscleGroupFilter) ==
  /\ IsNil(statusFilter) \/ w.Status = Deref(statusFilter)
  /\ IsNil(difficultyFilter) \/ w.Difficulty = Deref(difficultyFilter)
  /\ IsNil(muscleGroupFilter) \/ w.MuscleGroup = Deref(muscleGroupFilter)

GORMMatches_everyPresentFilter(w, statusFilter, difficultyFilter, muscleGroupFilter) ==
  /\ IsNil(statusFilter) \/ w.Status = Deref(statusFilter)
  /\ IsNil(difficultyFilter) \/ w.Difficulty = Deref(difficultyFilter)
  /\ IsNil(muscleGroupFilter) \/ w.MuscleGroup = Deref(muscleGroupFilter)

\* the WHERE clause GORMRepository.ListWorkouts builds
GORMMatches(w, statusFilter, difficultyFilter, muscleGroupFilter) ==
  IF ~IsNil(statusFilter) /\ ~IsNil(difficultyFilter)
  THEN w.Status = Deref(statusFilter) /\ w.Difficulty = Deref(difficultyFilter)
  ELSE IF ~IsNil(statusFilter) /\ ~IsNil(muscleGroupFilter)
  THEN w.Status = Deref(statusFilter) /\ w.MuscleGroup = Deref(muscleGroupFilter)
  ELSE /\ IsNil(statusFilter) \/ w.Status = Deref(statusFilter)
       /\ IsNil(difficultyFilter) \/ w.Difficulty = Deref(difficultyFilter)
       /\ IsNil(muscleGroupFilter) \/ w.MuscleGroup = Deref(muscleGroupFilter)

\* the rows of a map
Rows(m) == {m[k] : k \in DOMAIN m}

\* every ordering of a finite set
Orderings(S) ==
  {s \in [1..Cardinality(S) -> S] : \A i, j \in 1..Cardinality(S) : i # j => s[i] # s[j]}

\* MockWorkoutRepository.ListWorkouts: the matching rows, in map iteration order
MockListWorkouts(m, statusFilter, difficultyFilter, muscleGroupFilter) ==
  Orderings({w \in Rows(m) : MockMatches(w, statusFilter, difficultyFilter, muscleGroupFilter)})

\* GORMRepository.ListWorkouts: the matching rows, ORDER BY created_at DESC
GORMListWorkouts(m, statusFilter, difficultyFilter, muscleGroupFilter) ==
  {s \in Orderings({w \in Rows(m) : GORMMatches(w, statusFilter, difficultyFilter, muscleGroupFilter)}) :
     \A i, j \in 1..Len(s) : i < j => s[i].CreatedAt >= s[j].CreatedAt}

Repositories == {"mock", "gorm"}

RepoListWorkouts(impl, m, statusFilter, difficultyFilter, muscleGroupFilter) ==
  IF impl = "mock" THEN MockListWorkouts(m, statusFilter, difficultyFilter, muscleGroupFilter)
  ELSE GORMListWorkouts(m, statusFilter, difficultyFilter, muscleGroupFilter)

(***************************************************************************)
(* Requests                                                                *)
(***************************************************************************)
\* CreateWorkoutRequest
CreateWorkoutRequests ==
  [ExerciseType : ExerciseTypes, Description : Texts,
   Difficulty : {DifficultyBeginner, DifficultyBeast}, MuscleGroup : MuscleGroups,
   Sets : SetsValues, Reps : RepsValues, Weight : WeightValues, Notes : Texts]

\* the handler run last: its name, request and result
NoLast ==
  [op |-> "none", err |-> NoError, creq |-> Nil, ureq |-> Nil, id |-> 0,
   filter |-> Nil, impl |-> "", out |-> <<>>, count |-> 0,
   period |-> "", stats |-> <<>>, fault |-> "none", tx |-> <<>>, panic |-> "none",
   calls |-> <<>>, delivered |-> <<>>]

(***************************************************************************)
(* WorkoutManager.CreateWorkout                                            *)
(***************************************************************************)
NewWorkout_copiesNegatives(req, t) ==
  [ID |-> 0,
   ExerciseType |-> req.ExerciseType,
   Description |-> req.Description,
   Status |-> WorkoutStatusPlanned,
   Difficulty |-> req.Difficulty,
   MuscleGroup |-> req.MuscleGroup,
   Sets |-> IF req.Sets # 0 THEN req.Sets ELSE DefaultSets,
   Reps |-> IF req.Reps # 0 THEN req.Reps ELSE DefaultReps,
   Weight |-> IF req.Weight # 0 THEN req.Weight ELSE DefaultWeight,
   Notes |-> req.Notes,
   CreatedAt |-> t,
   UpdatedAt |-> t,
   CompletedAt |-> NoTime]

NewWorkout_defaultsSwapped(req, t) ==
  [ID |-> 0,
   ExerciseType |-> req.ExerciseType,
   Description |-> req.Description,
   Status |-> WorkoutStatusPlanned,
   Difficulty |-> req.Difficulty,
   MuscleGroup |-> req.MuscleGroup,
   Sets |-> IF req.Sets > 0 THEN req.Sets ELSE DefaultReps,
   Reps |-> IF req.Reps > 0 THEN req.Reps ELSE DefaultSets,
   Weight |-> IF req.Weight > 0 THEN req.Weight ELSE DefaultWeight,
   Notes |-> req.Notes,
   CreatedAt |-> t,
   UpdatedAt |-> t,
   CompletedAt |-> NoTime]

\* the record CreateWorkout builds: the defaults overlaid with the request
NewWorkout(req, t) ==
  [ID |-> 0,
   ExerciseType |-> req.ExerciseType,
   Description |-> IF req.Description # "" THEN req.Description ELSE "",
   Status |-> WorkoutStatusPlanned,
   Difficulty |-> IF req.Difficulty # 0 THEN req.Difficulty ELSE DifficultyBeginner,
   MuscleGroup |-> IF req.MuscleGroup # Unspecified THEN req.MuscleGroup ELSE Unspecified,
   Sets |-> IF req.Sets > 0 THEN req.Sets ELSE DefaultSets,
   Reps |-> IF req.Reps > 0 THEN req.Reps ELSE DefaultReps,
   Weight |-> IF req.Weight > 0 THEN req.Weight ELSE DefaultWeight,
   Notes |-> IF req.Notes # "" THEN req.Notes ELSE "",
   CreatedAt |-> t,
   UpdatedAt |-> t,
   CompletedAt |-> NoTime]

MockCreateWorkout_noID(workout, id) == workout

\* MockWorkoutRepository.CreateWorkout: the record after workout.ID = m.nextID
MockCreateWorkout(workout, id) == [workout EXCEPT !.ID = id]

MockStoreWorkout_beforeID(m, id, workout) == MapPut(m, id, workout)

\* MockWorkoutRepository.CreateWorkout: the map after m.workouts[m.nextID] = workout
MockStoreWorkout(m, id, workout) == MapPut(m, id, MockCreateWorkout(workout, id))

ExerciseTypeMissing_unchecked(req) == FALSE

\* the entry check of CreateWorkout
ExerciseTypeMissing(req) == req.ExerciseType = ExerciseUnspecified

\* the repository operations CreateWorkout invokes, in order
CreateWorkoutCalls(req) ==
  IF ExerciseTypeMissing(req) THEN <<>>
  ELSE IF validateWorkoutDataWithErrValidator(NewWorkout(req, 1)) # NoError THEN <<>>
  ELSE <<"CreateWorkout">>

CreateWorkout(req) ==
  LET workout == NewWorkout(req, now)
      verr == validateWorkoutDataWithErrValidator(workout)
  IN
  IF ExerciseTypeMissing(req)
  THEN /\ last' = [NoLast EXCEPT !.op = "CreateWorkout", !.creq = Ptr(req),
                                 !.err = Err("exercise_type_unspecified"),
                                 !.calls = CreateWorkoutCalls(req)]
       /\ now' = now + 1
       /\ UNCHANGED <<workouts, nextID, created, deleted>>
  ELSE IF verr # NoError
  THEN /\ last' = [NoLast EXCEPT !.op = "CreateWorkout", !.creq = Ptr(req), !.err = verr,
                                 !.calls = CreateWorkoutCalls(req)]
       /\ now' = now + 1
       /\ UNCHANGED <<workouts, nextID, created, deleted>>
  ELSE /\ workouts' = MockStoreWorkout(workouts, nextID, workout)
       /\ nextID' = nextID + 1
       /\ now' = now + 1
       /\ last' = [NoLast EXCEPT !.op = "CreateWorkout", !.creq = Ptr(req),
                                 !.out = <<MockCreateWorkout(workout, nextID)>>,
                                 !.calls = CreateWorkoutCalls(req)]
       /\ created' = created + 1
       /\ UNCHANGED deleted

(***************************************************************************)
(* WorkoutManager.GetWorkout                                               *)
(***************************************************************************)
\* the error GetWorkout returns for id over the store m
GetWorkoutErr(m, id) ==
  IF id <= 0 THEN Err("invalid_id")
  ELSE IF RepoGetErr(m, id) # NoError THEN RepoGetErr(m, id)
  ELSE IF ~isValidWorkout(m[id]) THEN Err("integrity")
  ELSE NoError

\* the repository operations GetWorkout invokes
GetWorkoutCalls(id) == IF id <= 0 THEN <<>> ELSE <<"GetWorkout">>

GetWorkout(id) ==
  /\ last' = [NoLast EXCEPT !.op = "GetWorkout", !.id = id,
                            !.calls = GetWorkoutCalls(id),
                            !.err = GetWorkoutErr(workouts, id),
                            !.out = IF GetWorkoutErr(workouts, id) = NoError
                                    THEN <<workouts[id]>> ELSE <<>>]
  /\ UNCHANGED <<workouts, nextID, now, created, deleted>>

(***************************************************************************)
(* WorkoutManager.UpdateWorkout                                            *)
(***************************************************************************)
handleStatusChange_neverStamps(workout, newStatus, t) == workout

handleStatusChange_alwaysStamps(workout, newStatus, t) ==
  IF newStatus = WorkoutStatusCompleted
  THEN [workout EXCEPT !.CompletedAt = t]
  ELSE workout

\* WorkoutManager.handleStatusChange: stamps the completion time once
handleStatusChange(workout, newStatus, t) ==
  IF newStatus = WorkoutStatusCompleted /\ workout.CompletedAt = NoTime
  THEN [workout EXCEPT !.CompletedAt = t]
  ELSE workout

\* the value of an optional field, a nil one read as the zero value
OrZero(p, zero) == IF IsNil(p) THEN zero ELSE Deref(p)

ApplyUpdate_overwritesAll(workout, req, t) ==
  handleStatusChange(
    [workout EXCEPT !.ExerciseType = req.ExerciseType,
                    !.Description = OrZero(req.Description, ""),
                    !.Status = OrZero(req.Status, 0),
                    !.Difficulty = OrZero(req.Difficulty, 0),
                    !.MuscleGroup = OrZero(req.MuscleGroup, 0),
                    !.Sets = OrZero(req.Sets, 0),
                    !.Reps = OrZero(req.Reps, 0),
                    !.Weight = OrZero(req.Weight, 0),
                    !.Notes = OrZero(req.Notes, ""),
                    !.UpdatedAt = t],
    OrZero(req.Status, 0), t)

ApplyUpdate_skipsZero(workout, req, t) ==
  LET w1 == [workout EXCEPT !.ExerciseType = req.ExerciseType]
      w2 == IF ~IsNil(req.Description) THEN [w1 EXCEPT !.Description = Deref(req.Description)] ELSE w1
      w3 == IF ~IsNil(req.Status)
            THEN handleStatusChange([w2 EXCEPT !.Status = Deref(req.Status)], Deref(req.Status), t)
            ELSE w2
      w4 == IF ~IsNil(req.Difficulty) THEN [w3 EXCEPT !.Difficulty = Deref(req.Difficulty)] ELSE w3
      w5 == IF ~IsNil(req.MuscleGroup) THEN [w4 EXCEPT !.MuscleGroup = Deref(req.MuscleGroup)] ELSE w4
      w6 == IF ~IsNil(req.Sets) /\ Deref(req.Sets) > 0 THEN [w5 EXCEPT !.Sets = Deref(req.Sets)] ELSE w5
      w7 == IF ~IsNil(req.Reps) /\ Deref(req.Reps) > 0 THEN [w6 EXCEPT !.Reps = Deref(req.Reps)] ELSE w6
      w8 == IF ~IsNil(req.Weight) /\ Deref(req.Weight) > 0 THEN [w7 EXCEPT !.Weight = Deref(req.Weight)] ELSE w7
      w9 == IF ~IsNil(req.Notes) THEN [w8 EXCEPT !.Notes = Deref(req.Notes)] ELSE w8
  IN [w9 EXCEPT !.UpdatedAt = t]

ApplyUpdate_forwardOnly(workout, req, t) ==
  LET w1 == [workout EXCEPT !.ExerciseType = req.ExerciseType]
      w2 == IF ~IsNil(req.Description) THEN [w1 EXCEPT !.Description = Deref(req.Description)] ELSE w1
      w3 == IF ~IsNil(req.Status) /\ Deref(req.Status) >= workout.Status
            THEN handleStatusChange([w2 EXCEPT !.Status = Deref(req.Status)], Deref(req.Status), t)
            ELSE w2
      w4 == IF ~IsNil(req.Difficulty) THEN [w3 EXCEPT !.Difficulty = Deref(req.Difficulty)] ELSE w3
      w5 == IF ~IsNil(req.MuscleGroup) THEN [w4 EXCEPT !.MuscleGroup = Deref(req.MuscleGroup)] ELSE w4
      w6 == IF ~IsNil(req.Sets) THEN [w5 EXCEPT !.Sets = Deref(req.Sets)] ELSE w5
      w7 == IF ~IsNil(req.Reps) THEN [w6 EXCEPT !.Reps = Deref(req.Reps)] ELSE w6
      w8 == IF ~IsNil(req.Weight) THEN [w7 EXCEPT !.Weight = Deref(req.Weight)] ELSE w7
      w9 == IF ~IsNil(req.Notes) THEN [w8 EXCEPT !.Notes = Deref(req.Notes)] ELSE w8
  IN [w9 EXCEPT !.UpdatedAt = t]

\* the field assignments of UpdateWorkout: only the non-nil fields
ApplyUpdate(workout, req, t) ==
  LET w1 == [workout EXCEPT !.ExerciseType = req.ExerciseType]
      w2 == IF ~IsNil(req.Description) THEN [w1 EXCEPT !.Description = Deref(req.Description)] ELSE w1
      w3 == IF ~IsNil(req.Status)
            THEN handleStatusChange([w2 EXCEPT !.Status = Deref(req.Status)], Deref(req.Status), t)
            ELSE w2
      w4 == IF ~IsNil(req.Difficulty) THEN [w3 EXCEPT !.Difficulty = Deref(req.Difficulty)] ELSE w3
      w5 == IF ~IsNil(req.MuscleGroup) THEN [w4 EXCEPT !.MuscleGroup = Deref(req.MuscleGroup)] ELSE w4
      w6 == IF ~IsNil(req.Sets) THEN [w5 EXCEPT !.Sets = Deref(req.Sets)] ELSE w5
      w7 == IF ~IsNil(req.Reps) THEN [w6 EXCEPT !.Reps = Deref(req.Reps)] ELSE w6
      w8 == IF ~IsNil(req.Weight) THEN [w7 EXCEPT !.Weight = Deref(req.Weight)] ELSE w7
      w9 == IF ~IsNil(req.Notes) THEN [w8 EXCEPT !.Notes = Deref(req.Notes)] ELSE w8
  IN [w9 EXCEPT !.UpdatedAt = t]

\* MockWorkoutRepository.UpdateWorkout
MockUpdateWorkout(m, workout) ==
  IF workout.ID \in DOMAIN m THEN MapPut(m, workout.ID, workout) ELSE m

UpdateWorkoutCalls_fetchFirst(m, req) ==
  IF RepoGetErr(m, req.ID) # NoError THEN <<"GetWorkout">>
  ELSE IF validateUpdateInput(req.ID, req.ExerciseType, req.Sets, req.Reps, req.Weight) # NoError
  THEN <<"GetWorkout">>
  ELSE <<"GetWorkout", "UpdateWorkout">>

\* the repository operations UpdateWorkout invokes, in order
UpdateWorkoutCalls(m, req) ==
  IF validateUpdateInput(req.ID, req.ExerciseType, req.Sets, req.Reps, req.Weight) # NoError
  THEN <<>>
  ELSE IF RepoGetErr(m, req.ID) # NoError THEN <<"GetWorkout">>
  ELSE <<"GetWorkout", "UpdateWorkout">>

UpdateWorkout(req) ==
  LET verr == validateUpdateInput(req.ID, req.ExerciseType, req.Sets, req.Reps, req.Weight)
      gerr == RepoGetErr(workouts, req.ID)
  IN
  IF verr # NoError
  THEN /\ last' = [NoLast EXCEPT !.op = "UpdateWorkout", !.ureq = Ptr(req), !.id = req.ID, !.err = verr,
                                 !.calls = UpdateWorkoutCalls(workouts, req)]
       /\ now' = now + 1
       /\ UNCHANGED <<workouts, nextID, created, deleted>>
  ELSE IF gerr # NoError
  THEN /\ last' = [NoLast EXCEPT !.op = "UpdateWorkout", !.ureq = Ptr(req), !.id = req.ID, !.err = gerr,
                                 !.calls = UpdateWorkoutCalls(workouts, req)]
       /\ now' = now + 1
       /\ UNCHANGED <<workouts, nextID, created, deleted>>
  ELSE /\ workouts' = MockUpdateWorkout(workouts, ApplyUpdate(workouts[req.ID], req, now))
       /\ now' = now + 1
       /\ last' = [NoLast EXCEPT !.op = "UpdateWorkout", !.ureq = Ptr(req), !.id = req.ID,
                                 !.calls = UpdateWorkoutCalls(workouts, req)]
       /\ UNCHANGED <<nextID, created, deleted>>

(***************************************************************************)
(* WorkoutManager.DeleteWorkout                                            *)
(***************************************************************************)
MockDeleteWorkout_keeps(m, id) == m

\* MockWorkoutRepository.DeleteWorkout
MockDeleteWorkout(m, id) == IF id \in DOMAIN m THEN MapDelete(m, id) ELSE m

DeleteWorkout_noPrefetch(id) ==
  IF id <= 0
  THEN /\ last' = [NoLast EXCEPT !.op = "DeleteWorkout", !.id = id, !.err = Err("invalid_id")]
       /\ now' = now + 1
       /\ UNCHANGED <<workouts, nextID, created, deleted>>
  ELSE /\ workouts' = MockDeleteWorkout(workouts, id)
       /\ deleted' = deleted \cup {id}
       /\ last' = [NoLast EXCEPT !.op = "DeleteWorkout", !.id = id, !.calls = <<"DeleteWorkout">>]
       /\ now' = now + 1
       /\ UNCHANGED <<nextID, created>>

\* the repository operations DeleteWorkout invokes, in order
DeleteWorkoutCalls(m, id) ==
  IF id <= 0 THEN <<>>
  ELSE IF RepoGetErr(m, id) # NoError THEN <<"GetWorkout">>
  ELSE <<"GetWorkout", "DeleteWorkout">>

DeleteWorkout(id) ==
  IF id <= 0
  THEN /\ last' = [NoLast EXCEPT !.op = "DeleteWorkout", !.id = id, !.err = Err("invalid_id"),
                                 !.calls = DeleteWorkoutCalls(workouts, id)]
       /\ now' = now + 1
       /\ UNCHANGED <<workouts, nextID, created, deleted>>
  ELSE IF RepoGetErr(workouts, id) # NoError
  THEN /\ last' = [NoLast EXCEPT !.op = "DeleteWorkout", !.id = id, !.err = RepoGetErr(workouts, id),
                                 !.calls = DeleteWorkoutCalls(workouts, id)]
       /\ now' = now + 1
       /\ UNCHANGED <<workouts, nextID, created, deleted>>
  ELSE /\ workouts' = MockDeleteWorkout(workouts, id)
       /\ deleted' = deleted \cup {id}
       /\ last' = [NoLast EXCEPT !.op = "DeleteWorkout", !.id = id,
                                 !.calls = DeleteWorkoutCalls(workouts, id)]
       /\ now' = now + 1
       /\ UNCHANGED <<nextID, created>>

(***************************************************************************)
(* WorkoutManager.ListWorkouts and GetWorkoutCount                         *)
(***************************************************************************)
\* the sequences ListWorkouts can return: the repository's rows that pass isValidWorkout
ListWorkoutsResults(impl, m, statusFilter, difficultyFilter, muscleGroupFilter) ==
  {SelectSeq(s, isValidWorkout) :
     s \in RepoListWorkouts(impl, m, statusFilter, difficultyFilter, muscleGroupFilter)}

ListWorkouts(impl, statusFilter, difficultyFilter, muscleGroupFilter) ==
  /\ \E s \in RepoListWorkouts(impl, workouts, statusFilter, difficultyFilter, muscleGroupFilter) :
       last' = [NoLast EXCEPT !.op = "ListWorkouts", !.impl = impl,
                              !.filter = <<statusFilter, difficultyFilter, muscleGroupFilter>>,
                              !.delivered = s,
                              !.out = SelectSeq(s, isValidWorkout)]
  /\ UNCHANGED <<workouts, nextID, now, created, deleted>>

MockGetWorkoutCount_highestID(m) ==
  IF DOMAIN m = {} THEN 0 ELSE CHOOSE k \in DOMAIN m : \A j \in DOMAIN m : j <= k

\* MockWorkoutRepository.GetWorkoutCount
MockGetWorkoutCount(m) == Cardinality(DOMAIN m)

GetWorkoutCount ==
  /\ last' = [NoLast EXCEPT !.op = "GetWorkoutCount", !.count = MockGetWorkoutCount(workouts)]
  /\ UNCHANGED <<workouts, nextID, now, created, deleted>>

(***************************************************************************)
(* WorkoutManager.GetHighIntensityWorkouts                                 *)
(***************************************************************************)
\* the weight from which a workout counts as heavy
HeavyWeight == 50

isHighIntensity_weightOnly(w) == w.Weight >= HeavyWeight

\* the test GetHighIntensityWorkouts keeps a record by
isHighIntensity(w) ==
  LET isHighDifficulty == w.Difficulty = DifficultyAdvanced \/ w.Difficulty = DifficultyBeast
      isHeavyWeight == w.Weight >= HeavyWeight
  IN isHighDifficulty /\ isHeavyWeight

\* the sequences GetHighIntensityWorkouts can return: the repository's
\* unfiltered listing, the high-intensity records kept in its order
HighIntensityResults(impl, m) ==
  {SelectSeq(s, isHighIntensity) : s \in RepoListWorkouts(impl, m, Nil, Nil, Nil)}

GetHighIntensityWorkouts(impl) ==
  /\ \E s \in HighIntensityResults(impl, workouts) :
       last' = [NoLast EXCEPT !.op = "GetHighIntensityWorkouts", !.impl = impl, !.out = s]
  /\ UNCHANGED <<workouts, nextID, now, created, deleted>>

(***************************************************************************)
(* WorkoutManager.GetWorkoutStats                                          *)
(***************************************************************************)
\* the clock counts hours: the length of a day, the days of a week and of the
\* default window
Day == 24
WeekDays == 7
MonthDays == 30

Periods == {"today", "week", "month", ""}

\* the start of the time window of GORMRepository.GetWorkoutStats (a month
\* taken as 30 days)
TimeFilter(period, t) ==
  IF period = "today" THEN t - (t % Day)
  ELSE IF period = "week" THEN t - WeekDays * Day
  ELSE t - MonthDays * Day

\* SUM(weight * sets * reps) over a non-empty set of rows
RECURSIVE SumVolume(_)
SumVolume(S) ==
  IF S = {} THEN 0
  ELSE LET w == CHOOSE x \in S : TRUE
       IN w.Weight * w.Sets * w.Reps + SumVolume(S \ {w})

\* the rows of m with the given status
RowsWithStatus(S, status) == {w \in S : w.Status = status}

\* MockWorkoutRepository.GetWorkoutStats: counts over the whole map, whatever
\* the period; the weight is left at 0.0 and no muscle-group entry is set
MockGetWorkoutStats(m, period) ==
  [err |-> NoError,
   stats |-> [total_workouts |-> Cardinality(DOMAIN m),
              completed_workouts |-> Cardinality(RowsWithStatus(Rows(m), WorkoutStatusCompleted)),
              skipped_workouts |-> Cardinality(RowsWithStatus(Rows(m), WorkoutStatusSkipped)),
              total_weight_lifted |-> 0]]

\* GORMRepository.GetWorkoutStats: counts over the rows created in the window.
\* SUM over no row is NULL, which Scan cannot store in a float64: the query of
\* the total weight fails when the window holds no completed row.
GORMGetWorkoutStats(m, period, t) ==
  LET inWindow == {w \in Rows(m) : w.CreatedAt >= TimeFilter(period, t)}
      completed == RowsWithStatus(inWindow, WorkoutStatusCompleted)
      groups == {w.MuscleGroup : w \in inWindow}
  IN IF completed = {}
     THEN [err |-> Err("repository"), stats |-> <<>>]
     ELSE [err |-> NoError,
           stats |-> [total_workouts |-> Cardinality(inWindow),
                      completed_workouts |-> Cardinality(completed),
                      skipped_workouts |-> Cardinality(RowsWithStatus(inWindow, WorkoutStatusSkipped)),
                      total_weight_lifted |-> SumVolume(completed),
                      muscle_group_stats |->
                        [g \in groups |-> Cardinality({w \in inWindow : w.MuscleGroup = g})]]]

RepoGetWorkoutStats(impl, m, period, t) ==
  IF impl = "mock" THEN MockGetWorkoutStats(m, period)
  ELSE GORMGetWorkoutStats(m, period, t)

GetWorkoutStats(impl, period) ==
  /\ last' = [NoLast EXCEPT !.op = "GetWorkoutStats", !.impl = impl, !.period = period,
                            !.err = RepoGetWorkoutStats(impl, workouts, period, now).err,
                            !.stats = RepoGetWorkoutStats(impl, workouts, period, now).stats]
  /\ UNCHANGED <<workouts, nextID, now, created, deleted>>

(***************************************************************************)
(* The repository operations called directly: GetWorkoutByID,              *)
(* UpdateWorkout and DeleteWorkout of either implementation                *)
(***************************************************************************)
\* GORMRepository.GetWorkout: First reports ErrRecordNotFound for no row
GORMGetErr(m, id) == IF id \in DOMAIN m THEN NoError ELSE Err("not_found")

\* MockWorkoutRepository.UpdateWorkout: the error
MockUpdateErr(m, workout) ==
  IF workout.ID \in DOMAIN m THEN NoError ELSE Err("not_found")

\* MockWorkoutRepository.DeleteWorkout: the error
MockDeleteErr(m, id) == IF id \in DOMAIN m THEN NoError ELSE Err("not_found")

\* GORMRepository.UpdateWorkout: Save writes every field of the record whose
\* UpdatedAt is refreshed.  For a primary key no row has, the UPDATE matches
\* nothing, which is no error; Save then inserts the record, or leaves the
\* table alone where it has no insert fallback.
GORMUpdateWorkout(m, workout, t) ==
  LET w == [workout EXCEPT !.UpdatedAt = t]
  IN IF w.ID \in DOMAIN m THEN {MapPut(m, w.ID, w)}
     ELSE {MapPut(m, w.ID, w), m}

\* GORMRepository.DeleteWorkout: the table after DELETE ... WHERE id = ?;
\* only a fault of the store is an error, a DELETE of no row is none
GORMDeleteWorkout(m, id) == IF id \in DOMAIN m THEN MapDelete(m, id) ELSE m

RepoGetWorkoutByID(impl, id) ==
  LET err == IF impl = "mock" THEN RepoGetErr(workouts, id) ELSE GORMGetErr(workouts, id)
  IN /\ last' = [NoLast EXCEPT !.op = "RepoGetWorkoutByID", !.impl = impl, !.id = id,
                               !.err = err,
                               !.out = IF err = NoError THEN <<workouts[id]>> ELSE <<>>]
     /\ UNCHANGED <<workouts, nextID, now, created, deleted>>

RepoUpdateWorkout(impl, workout) ==
  /\ IF impl = "mock"
     THEN /\ workouts' = MockUpdateWorkout(workouts, workout)
          /\ last' = [NoLast EXCEPT !.op = "RepoUpdateWorkout", !.impl = impl,
                                    !.id = workout.ID, !.err = MockUpdateErr(workouts, workout)]
          /\ UNCHANGED nextID
     ELSE /\ workouts' \in GORMUpdateWorkout(workouts, workout, now)
          /\ last' = [NoLast EXCEPT !.op = "RepoUpdateWorkout", !.impl = impl, !.id = workout.ID]
          /\ nextID' = IF workout.ID \in DOMAIN workouts' /\ workout.ID >= nextID
                       THEN workout.ID + 1 ELSE nextID
  /\ now' = now + 1
  /\ UNCHANGED <<created, deleted>>

RepoDeleteWorkout(impl, id) ==
  /\ IF impl = "mock"
     THEN /\ workouts' = MockDeleteWorkout(workouts, id)
          /\ last' = [NoLast EXCEPT !.op = "RepoDeleteWorkout", !.impl = impl, !.id = id,
                                    !.err = MockDeleteErr(workouts, id)]
     ELSE /\ workouts' = GORMDeleteWorkout(workouts, id)
          /\ last' = [NoLast EXCEPT !.op = "RepoDeleteWorkout", !.impl = impl, !.id = id]
  /\ now' = now + 1
  /\ UNCHANGED <<nextID, created, deleted>>

(***************************************************************************)
(* GORMRepository.CreateWorkout, UpdateWorkout and DeleteWorkout over a    *)
(* store that can report a fault.  Each runs one statement in the default  *)
(* transaction of the connection: BEGIN, the statement, then COMMIT, or    *)
(* ROLLBACK when the statement failed.                                     *)
(***************************************************************************)
\* where the store reports a fault: nowhere, at the statement, at the commit
Faults == {"none", "exec", "commit"}

\* the statements the connection sees
GORMStatements(fault) ==
  IF fault = "exec" THEN <<"begin", "exec", "rollback">> ELSE <<"begin", "exec", "commit">>

\* the table once the transaction is over: the written table when the commit
\* went through, the table as it was otherwise
GORMTransaction(m, written, fault) == IF fault = "none" THEN written ELSE m

GORMOpErr_swallowed(fault) == NoError

\* the error the operation returns: the fault of the store, wrapped
GORMOpErr(fault) == IF fault = "none" THEN NoError ELSE Err("repository")

\* the row db.Create inserts: the identifier from the auto-increment counter,
\* a zero Difficulty, Sets or Reps replaced by the default of its column tag
GORMCreateRecord(workout, id) ==
  [workout EXCEPT !.ID = id,
                  !.Difficulty = IF workout.Difficulty = 0 THEN 1 ELSE workout.Difficulty,
                  !.Sets = IF workout.Sets = 0 THEN 3 ELSE workout.Sets,
                  !.Reps = IF workout.Reps = 0 THEN 10 ELSE workout.Reps]

TxCreateWorkout(workout, fault) ==
  /\ workouts' = GORMTransaction(workouts,
                                 MapPut(workouts, nextID, GORMCreateRecord(workout, nextID)), fault)
  /\ nextID' = IF fault = "exec" THEN nextID ELSE nextID + 1
  /\ last' = [NoLast EXCEPT !.op = "TxCreateWorkout", !.impl = "gorm", !.id = nextID,
                            !.fault = fault, !.tx = GORMStatements(fault),
                            !.err = GORMOpErr(fault),
                            !.out = IF fault = "none"
                                    THEN <<GORMCreateRecord(workout, nextID)>> ELSE <<>>]
  /\ now' = now + 1
  /\ UNCHANGED <<created, deleted>>

TxUpdateWorkout(workout, fault) ==
  /\ \E written \in GORMUpdateWorkout(workouts, workout, now) :
       workouts' = GORMTransaction(workouts, written, fault)
  /\ nextID' = IF workout.ID \in DOMAIN workouts' /\ workout.ID >= nextID
               THEN workout.ID + 1 ELSE nextID
  /\ last' = [NoLast EXCEPT !.op = "TxUpdateWorkout", !.impl = "gorm", !.id = workout.ID,
                            !.fault = fault, !.tx = GORMStatements(fault),
                            !.err = GORMOpErr(fault)]
  /\ now' = now + 1
  /\ UNCHANGED <<created, deleted>>

TxDeleteWorkout(id, fault) ==
  /\ workouts' = GORMTransaction(workouts, GORMDeleteWorkout(workouts, id), fault)
  /\ last' = [NoLast EXCEPT !.op = "TxDeleteWorkout", !.impl = "gorm", !.id = id,
                            !.fault = fault, !.tx = GORMStatements(fault),
                            !.err = GORMOpErr(fault)]
  /\ now' = now + 1
  /\ UNCHANGED <<nextID, created, deleted>>

(***************************************************************************)
(* The handlers of the manager NewWorkoutManager builds: its repo is nil,  *)
(* so the first repository call of a handler panics (nil dereference).     *)
(* CreateWorkout recovers the panic in a deferred function and returns the *)
(* zero values of its results; no other handler recovers, the panic leaves *)
(* the handler and the caller gets no return.                              *)
(***************************************************************************)
NoRepoCreateWorkout(req) ==
  LET workout == NewWorkout(req, now)
      verr == validateWorkoutDataWithErrValidator(workout)
  IN
  /\ last' = IF ExerciseTypeMissing(req)
             THEN [NoLast EXCEPT !.op = "CreateWorkout", !.creq = Ptr(req),
                                 !.err = Err("exercise_type_unspecified")]
             ELSE IF verr # NoError
             THEN [NoLast EXCEPT !.op = "CreateWorkout", !.creq = Ptr(req), !.err = verr]
             ELSE [NoLast EXCEPT !.op = "CreateWorkout", !.creq = Ptr(req),
                                 !.panic = "recovered"]
  /\ now' = now + 1
  /\ UNCHANGED <<workouts, nextID, created, deleted>>

NoRepoGetWorkout(id) ==
  /\ last' = IF id <= 0
             THEN [NoLast EXCEPT !.op = "GetWorkout", !.id = id, !.err = Err("invalid_id")]
             ELSE [NoLast EXCEPT !.op = "GetWorkout", !.id = id, !.panic = "crashed"]
  /\ UNCHANGED <<workouts, nextID, now, created, deleted>>

NoRepoUpdateWorkout(req) ==
  LET verr == validateUpdateInput(req.ID, req.ExerciseType, req.Sets, req.Reps, req.Weight)
  IN
  /\ last' = IF verr # NoError
             THEN [NoLast EXCEPT !.op = "UpdateWorkout", !.ureq = Ptr(req), !.id = req.ID, !.err = verr]
             ELSE [NoLast EXCEPT !.op = "UpdateWorkout", !.ureq = Ptr(req), !.id = req.ID,
                                 !.panic = "crashed"]
  /\ now' = now + 1
  /\ UNCHANGED <<workouts, nextID, created, deleted>>

NoRepoDeleteWorkout(id) ==
  /\ last' = IF id <= 0
             THEN [NoLast EXCEPT !.op = "DeleteWorkout", !.id = id, !.err = Err("invalid_id")]
             ELSE [NoLast EXCEPT !.op = "DeleteWorkout", !.id = id, !.panic = "crashed"]
  /\ now' = now + 1
  /\ UNCHANGED <<workouts, nextID, created, deleted>>

\* ListWorkouts, GetHighIntensityWorkouts, GetWorkoutCount and GetWorkoutStats
\* start with the repository call
NoRepoQuery(op) ==
  /\ last' = [NoLast EXCEPT !.op = op, !.panic = "crashed"]
  /\ UNCHANGED <<workouts, nextID, now, created, deleted>>

(***************************************************************************)
(* Handler calls running concurrently, one per request, on one repository. *)
(* UpdateWorkout and DeleteWorkout each make two repository calls, the     *)
(* fetch and the write; nothing orders the calls of one handler against    *)
(* those of another.  Each repository call is one step.                    *)
(***************************************************************************)
Tasks == {1, 2}

NoTask ==
  [pc |-> "idle", impl |-> "", op |-> "", ureq |-> Nil, id |-> 0, fetched |-> Nil,
   err |-> NoError]

\* every call of a run is served by the same repository
SameRepository(impl) == \A u \in Tasks : tasks[u].impl \in {"", impl}

\* the error of the fetch either repository makes
RepoFetchErr(impl, m, id) ==
  IF impl = "mock" THEN RepoGetErr(m, id) ELSE GORMGetErr(m, id)

\* UpdateWorkout up to the return of wm.repo.GetWorkout: the in-memory
\* repository hands out the stored object, the storage-backed one a copy
BeginUpdateWorkout(t, impl, req) ==
  LET verr == validateUpdateInput(req.ID, req.ExerciseType, req.Sets, req.Reps, req.Weight)
      gerr == RepoFetchErr(impl, workouts, req.ID)
      call == [NoTask EXCEPT !.impl = impl, !.op = "UpdateWorkout", !.ureq = Ptr(req),
                             !.id = req.ID]
      err == IF verr # NoError THEN verr ELSE gerr
  IN
  /\ tasks[t].pc = "idle"
  /\ SameRepository(impl)
  /\ IF err # NoError
     THEN /\ tasks' = [tasks EXCEPT ![t] = [call EXCEPT !.pc = "done", !.err = err]]
          /\ last' = [NoLast EXCEPT !.op = "UpdateWorkout", !.impl = impl, !.ureq = Ptr(req),
                                    !.id = req.ID, !.err = err]
     ELSE /\ tasks' = [tasks EXCEPT ![t] = [call EXCEPT !.pc = "fetched",
                                                        !.fetched = Ptr(workouts[req.ID])]]
          /\ UNCHANGED last
  /\ UNCHANGED <<workouts, nextID, now, created, deleted>>

\* UpdateWorkout from the field assignments to the return of
\* wm.repo.UpdateWorkout.  In memory the assignments change the stored object
\* itself and the repository fails when the map has lost the identifier; the
\* storage-backed repository saves the task's copy, every field of it.
FinishUpdateWorkout(t) ==
  LET req == Deref(tasks[t].ureq)
      err == IF tasks[t].impl = "mock" THEN MockUpdateErr(workouts, req) ELSE NoError
  IN
  /\ tasks[t].pc = "fetched" /\ tasks[t].op = "UpdateWorkout"
  /\ IF tasks[t].impl = "mock"
     THEN workouts' = IF req.ID \in DOMAIN workouts
                      THEN MockUpdateWorkout(workouts, ApplyUpdate(workouts[req.ID], req, now))
                      ELSE workouts
     ELSE \E written \in GORMUpdateWorkout(workouts,
                                           ApplyUpdate(Deref(tasks[t].fetched), req, now), now) :
            workouts' = written
  /\ tasks' = [tasks EXCEPT ![t].pc = "done", ![t].err = err]
  /\ last' = [NoLast EXCEPT !.op = "UpdateWorkout", !.impl = tasks[t].impl,
                            !.ureq = tasks[t].ureq, !.id = req.ID, !.err = err]
  /\ now' = now + 1
  /\ UNCHANGED <<nextID, created, deleted>>

\* DeleteWorkout up to the return of wm.repo.GetWorkout
BeginDeleteWorkout(t, impl, id) ==
  LET err == IF id <= 0 THEN Err("invalid_id") ELSE RepoFetchErr(impl, workouts, id)
      call == [NoTask EXCEPT !.impl = impl, !.op = "DeleteWorkout", !.id = id]
  IN
  /\ tasks[t].pc = "idle"
  /\ SameRepository(impl)
  /\ IF err # NoError
     THEN /\ tasks' = [tasks EXCEPT ![t] = [call EXCEPT !.pc = "done", !.err = err]]
          /\ last' = [NoLast EXCEPT !.op = "DeleteWorkout", !.impl = impl, !.id = id,
                                    !.err = err]
     ELSE /\ tasks' = [tasks EXCEPT ![t] = [call EXCEPT !.pc = "fetched",
                                                        !.fetched = Ptr(workouts[id])]]
          /\ UNCHANGED last
  /\ UNCHANGED <<workouts, nextID, now, created, deleted>>

\* DeleteWorkout: the call of wm.repo.DeleteWorkout and the return
FinishDeleteWorkout(t) ==
  LET id == tasks[t].id
      err == IF tasks[t].impl = "mock" THEN MockDeleteErr(workouts, id) ELSE NoError
  IN
  /\ tasks[t].pc = "fetched" /\ tasks[t].op = "DeleteWorkout"
  /\ workouts' = IF tasks[t].impl = "mock" THEN MockDeleteWorkout(workouts, id)
                 ELSE GORMDeleteWorkout(workouts, id)
  /\ deleted' = IF err = NoError THEN deleted \cup {id} ELSE deleted
  /\ tasks' = [tasks EXCEPT ![t].pc = "done", ![t].err = err]
  /\ last' = [NoLast EXCEPT !.op = "DeleteWorkout", !.impl = tasks[t].impl, !.id = id,
                            !.err = err]
  /\ now' = now + 1
  /\ UNCHANGED <<nextID, created>>

\* The in-memory repository guards its map with no lock.  When the writes of
\* two running handlers overlap, the runtime may detect the concurrent map
\* access and abort the process; otherwise the writes take effect one after
\* the other, as FinishUpdateWorkout and FinishDeleteWorkout describe.
MockMapRace ==
  /\ \A t \in Tasks : tasks[t].pc = "fetched" /\ tasks[t].impl = "mock"
  /\ tasks' = [t \in Tasks |-> [tasks[t] EXCEPT !.pc = "crashed"]]
  /\ last' = [NoLast EXCEPT !.op = "MockMapRace", !.impl = "mock", !.panic = "crashed"]
  /\ UNCHANGED <<workouts, nextID, now, created, deleted>>

\* the process has been aborted
Crashed == \E t \in Tasks : tasks[t].pc = "crashed"

(***************************************************************************)
(* Specifications                                                          *)
(***************************************************************************)
\* NewMockWorkoutRepository, NewWorkoutManagerWithRepository
Init ==
  /\ workouts = <<>>
  /\ nextID = 1
  /\ now = 1
  /\ created = 0
  /\ deleted = {}
  /\ last = NoLast
  /\ tasks = [t \in Tasks |-> NoTask]

\* identifiers a request may name: none, the created ones, one never created
RequestIDs == 0..(MaxWorkouts + 1)

\* the requests of the lifecycle specification: a kind and a difficulty to
\* create with, a status to update
CoreCreateRequests ==
  [ExerciseType : {ExerciseUnspecified, BenchPress}, Description : {""},
   Difficulty : {DifficultyBeginner, DifficultyBeast}, MuscleGroup : {Unspecified},
   Sets : {0}, Reps : {0}, Weight : {0}, Notes : {""}]

CoreUpdateRequests ==
  [ID : RequestIDs, ExerciseType : {BenchPress},
   Description : {Nil}, Difficulty : {Nil}, MuscleGroup : {Nil}, Status : Opt(Statuses),
   Sets : {Nil}, Reps : {Nil}, Weight : {Nil}, Notes : {Nil}]

CoreFilters ==
  Opt({WorkoutStatusPlanned, WorkoutStatusCompleted}) \X Opt({DifficultyBeast}) \X {Nil}

Next ==
  \/ nextID <= MaxWorkouts /\ now <= MaxClock /\ \E req \in CoreCreateRequests : CreateWorkout(req) /\ UNCHANGED tasks
  \/ now <= MaxClock /\ \E req \in CoreUpdateRequests : UpdateWorkout(req) /\ UNCHANGED tasks
  \/ now <= MaxClock /\ \E id \in RequestIDs : DeleteWorkout(id) /\ UNCHANGED tasks
  \/ \E id \in RequestIDs : GetWorkout(id) /\ UNCHANGED tasks
  \/ \E impl \in Repositories, f \in CoreFilters : ListWorkouts(impl, f[1], f[2], f[3]) /\ UNCHANGED tasks
  \/ GetWorkoutCount /\ UNCHANGED tasks

Spec == Init /\ [][Next]_vars

\* Creation over the whole request domain: the records before the last one come
\* from the core requests; the last Create, Update or Delete call of the run is
\* a CreateWorkout of any CreateWorkoutRequest.
NextCreate ==
  \/ nextID < MaxWorkouts /\ now < MaxClock /\ \E req \in CoreCreateRequests : CreateWorkout(req) /\ UNCHANGED tasks
  \/ now = MaxClock /\ \E req \in CreateWorkoutRequests : CreateWorkout(req) /\ UNCHANGED tasks
  \/ \E id \in RequestIDs : GetWorkout(id) /\ UNCHANGED tasks
  \/ GetWorkoutCount /\ UNCHANGED tasks

SpecCreate == Init /\ [][NextCreate]_vars

\* the records an update finds: one with every field set, one with only the kind
SeedCreateRequests ==
  {[ExerciseType |-> BenchPress, Description |-> "a", Difficulty |-> DifficultyBeast,
    MuscleGroup |-> Chest, Sets |-> 0, Reps |-> 0, Weight |-> 50, Notes |-> "a"],
   [ExerciseType |-> BenchPress, Description |-> "", Difficulty |-> DifficultyBeginner,
    MuscleGroup |-> Unspecified, Sets |-> 0, Reps |-> 0, Weight |-> 0, Notes |-> ""]}

\* every presence pattern of the eight optional fields, with every sign of the
\* numeric ones, for an absent, an invalid and the created identifiers
WideUpdateRequests ==
  [ID : {0, 1, MaxWorkouts + 1}, ExerciseType : {ExerciseUnspecified, Squat},
   Description : Opt({""}), Difficulty : Opt({DifficultyAdvanced}),
   MuscleGroup : Opt({Unspecified}), Status : Opt({WorkoutStatusCompleted}),
   Sets : Opt(SetsValues), Reps : Opt(RepsValues), Weight : Opt(WeightValues),
   Notes : Opt({""})]

\* Update over the wide request domain: the last Create, Update or Delete call
\* of the run is an UpdateWorkout of any WideUpdateRequest.
NextUpdate ==
  \/ nextID <= MaxWorkouts /\ now < MaxClock /\ \E req \in SeedCreateRequests : CreateWorkout(req) /\ UNCHANGED tasks
  \/ now < MaxClock /\ \E id \in RequestIDs : DeleteWorkout(id) /\ UNCHANGED tasks
  \/ now = MaxClock /\ \E req \in WideUpdateRequests : UpdateWorkout(req) /\ UNCHANGED tasks
  \/ \E id \in RequestIDs : GetWorkout(id) /\ UNCHANGED tasks

SpecUpdate == Init /\ [][NextUpdate]_vars

\* the records the queries run over: any difficulty and muscle group, a weight
\* below, at and above the heavy-weight threshold
QueryWeights == {49, 50, 80}

QuerySeedRequests ==
  {[ExerciseType |-> BenchPress, Description |-> "", Difficulty |-> DifficultyBeast,
    MuscleGroup |-> Chest, Sets |-> 0, Reps |-> 0, Weight |-> 80, Notes |-> ""],
   [ExerciseType |-> BenchPress, Description |-> "", Difficulty |-> DifficultyBeginner,
    MuscleGroup |-> Unspecified, Sets |-> 0, Reps |-> 0, Weight |-> 80, Notes |-> ""]}

QueryCreateRequests ==
  [ExerciseType : {BenchPress}, Description : {""},
   Difficulty : Difficulties, MuscleGroup : MuscleGroups,
   Sets : {0}, Reps : {0}, Weight : QueryWeights, Notes : {""}]

\* the updates that complete a record
QueryUpdateRequests ==
  [ID : 1..MaxWorkouts, ExerciseType : {BenchPress},
   Description : {Nil}, Difficulty : {Nil}, MuscleGroup : {Nil},
   Status : {Ptr(WorkoutStatusCompleted)},
   Sets : {Nil}, Reps : {Nil}, Weight : {Nil}, Notes : {Nil}]

QueryFilters ==
  Opt({WorkoutStatusCompleted}) \X Opt({DifficultyBeast}) \X Opt(MuscleGroups)

\* Queries over the stores the handlers build: the records before the last one
\* come from the seed requests and may be completed; the last Create, Update
\* or Delete call of the run is a CreateWorkout of any QueryCreateRequest.
NextQuery ==
  \/ nextID < MaxWorkouts /\ now < MaxClock /\ \E req \in QuerySeedRequests : CreateWorkout(req) /\ UNCHANGED tasks
  \/ now < MaxClock /\ \E req \in QueryUpdateRequests : UpdateWorkout(req) /\ UNCHANGED tasks
  \/ now = MaxClock /\ \E req \in QueryCreateRequests : CreateWorkout(req) /\ UNCHANGED tasks
  \/ \E impl \in Repositories, f \in QueryFilters : ListWorkouts(impl, f[1], f[2], f[3]) /\ UNCHANGED tasks
  \/ \E impl \in Repositories : GetHighIntensityWorkouts(impl) /\ UNCHANGED tasks
  \/ \E impl \in Repositories, period \in Periods : GetWorkoutStats(impl, period) /\ UNCHANGED tasks

SpecQuery == Init /\ [][NextQuery]_vars

\* the records a caller hands to the repository's UpdateWorkout: a stored
\* record with new notes, or a record under any identifier
RepoUpdateRecords(m) ==
  {[w EXCEPT !.Notes = "a"] : w \in Rows(m)}
    \cup {[NewWorkout(req, 1) EXCEPT !.ID = id] :
            req \in {r \in CoreCreateRequests : ~ExerciseTypeMissing(r)},
            id \in 1..(MaxWorkouts + 1)}

\* The repository called directly, over the records the handlers created.
NextRepo ==
  \/ nextID <= MaxWorkouts /\ now <= MaxClock /\ \E req \in CoreCreateRequests : CreateWorkout(req) /\ UNCHANGED tasks
  \/ \E impl \in Repositories, id \in RequestIDs : RepoGetWorkoutByID(impl, id) /\ UNCHANGED tasks
  \/ now <= MaxClock /\ \E impl \in Repositories :
       \E workout \in RepoUpdateRecords(workouts) : RepoUpdateWorkout(impl, workout) /\ UNCHANGED tasks
  \/ now <= MaxClock /\ \E impl \in Repositories, id \in RequestIDs : RepoDeleteWorkout(impl, id) /\ UNCHANGED tasks

SpecRepo == Init /\ [][NextRepo]_vars

\* the records a caller hands to the repository's CreateWorkout
TxCreateRecords ==
  {NewWorkout(req, 1) : req \in CoreCreateRequests}

\* The storage-backed repository over a store that can report faults.
NextTx ==
  \/ nextID <= MaxWorkouts /\ now <= MaxClock /\
       \E workout \in TxCreateRecords, fault \in Faults : TxCreateWorkout(workout, fault) /\ UNCHANGED tasks
  \/ now <= MaxClock /\
       \E workout \in RepoUpdateRecords(workouts), fault \in Faults : TxUpdateWorkout(workout, fault) /\ UNCHANGED tasks
  \/ now <= MaxClock /\ \E id \in RequestIDs, fault \in Faults : TxDeleteWorkout(id, fault) /\ UNCHANGED tasks
  \/ \E id \in RequestIDs : RepoGetWorkoutByID("gorm", id) /\ UNCHANGED tasks

SpecTx == Init /\ [][NextTx]_vars

\* the requests that probe the input checks of UpdateWorkout
InputUpdateRequests ==
  [ID : {0, 1}, ExerciseType : {ExerciseUnspecified, Squat},
   Description : {Nil}, Difficulty : {Nil}, MuscleGroup : {Nil}, Status : {Nil},
   Sets : Opt(SetsValues), Reps : Opt(RepsValues), Weight : Opt(WeightValues),
   Notes : {Nil}]

\* Well-formed and malformed calls of the four handlers that check their input;
\* the last Create, Update or Delete call of the run is an UpdateWorkout.
NextInput ==
  \/ nextID <= MaxWorkouts /\ now < MaxClock /\ \E req \in CoreCreateRequests : CreateWorkout(req) /\ UNCHANGED tasks
  \/ now < MaxClock /\ \E id \in RequestIDs : DeleteWorkout(id) /\ UNCHANGED tasks
  \/ now = MaxClock /\ \E req \in InputUpdateRequests : UpdateWorkout(req) /\ UNCHANGED tasks
  \/ \E id \in RequestIDs : GetWorkout(id) /\ UNCHANGED tasks

SpecInput == Init /\ [][NextInput]_vars

\* records under an identifier no handler assigns
ListUpdateRecords ==
  {[NewWorkout(req, 1) EXCEPT !.ID = -1] :
     req \in {r \in CoreCreateRequests : ~ExerciseTypeMissing(r)}}

\* no filter, or the difficulty the created records differ in
ListFilters == {Nil} \X Opt({DifficultyBeast}) \X {Nil}

\* The handlers that read, over a store written through the repository
\* directly: records of any kind, and a record under a negative identifier,
\* written once.
NextList ==
  \/ nextID <= MaxWorkouts /\ now <= MaxClock /\
       \E workout \in TxCreateRecords : TxCreateWorkout(workout, "none") /\ UNCHANGED tasks
  \/ now <= MaxClock /\ -1 \notin DOMAIN workouts /\
       \E workout \in ListUpdateRecords : TxUpdateWorkout(workout, "none") /\ UNCHANGED tasks
  \/ \E impl \in Repositories, f \in ListFilters : ListWorkouts(impl, f[1], f[2], f[3]) /\ UNCHANGED tasks
  \/ \E id \in RequestIDs : GetWorkout(id) /\ UNCHANGED tasks

SpecList == Init /\ [][NextList]_vars

\* updates of the first record that supply a weight, notes, both or neither
ConcUpdateRequests ==
  [ID : {1}, ExerciseType : {BenchPress},
   Description : {Nil}, Difficulty : {Nil}, MuscleGroup : {Nil}, Status : {Nil},
   Sets : {Nil}, Reps : {Nil}, Weight : Opt({80}), Notes : Opt({"b"})]

\* Two handler calls at a time over the records CreateWorkout stored.
NextConc ==
  \/ ~Crashed /\ nextID <= MaxWorkouts /\ now <= MaxClock /\
       \E req \in SeedCreateRequests : CreateWorkout(req) /\ UNCHANGED tasks
  \/ ~Crashed /\ \E t \in Tasks, impl \in Repositories, req \in ConcUpdateRequests :
       BeginUpdateWorkout(t, impl, req)
  \/ \E t \in Tasks : FinishUpdateWorkout(t)
  \/ ~Crashed /\ \E t \in Tasks, impl \in Repositories, id \in 1..MaxWorkouts :
       BeginDeleteWorkout(t, impl, id)
  \/ \E t \in Tasks : FinishDeleteWorkout(t)
  \/ ~Crashed /\ \E id \in RequestIDs : GetWorkout(id) /\ UNCHANGED tasks
  \/ MockMapRace

SpecConc == Init /\ [][NextConc]_vars

QueryOps == {"ListWorkouts", "GetHighIntensityWorkouts", "GetWorkoutCount", "GetWorkoutStats"}

\* The manager without a repository; a panic that leaves a handler ends the run.
NextNoRepo ==
  \/ last.panic # "crashed" /\ now <= MaxClock /\
       \E req \in CreateWorkoutRequests : NoRepoCreateWorkout(req) /\ UNCHANGED tasks
  \/ last.panic # "crashed" /\ \E id \in RequestIDs : NoRepoGetWorkout(id) /\ UNCHANGED tasks
  \/ last.panic # "crashed" /\ now <= MaxClock /\
       \E req \in CoreUpdateRequests : NoRepoUpdateWorkout(req) /\ UNCHANGED tasks
  \/ last.panic # "crashed" /\ now <= MaxClock /\ \E id \in RequestIDs : NoRepoDeleteWorkout(id) /\ UNCHANGED tasks
  \/ last.panic # "crashed" /\ \E op \in QueryOps : NoRepoQuery(op) /\ UNCHANGED tasks

SpecNoRepo == Init /\ [][NextNoRepo]_vars

(***************************************************************************)
(* Properties of CreateWorkout and GetWorkout (SpecCreate)                 *)
(***************************************************************************)
\* the request of the last CreateWorkout
CreateRan == last.op = "CreateWorkout"
CreateReq == Deref(last.creq)
CreateOK == CreateRan /\ last.err = NoError
SuppliedNegative(req) == req.Sets < 0 \/ req.Reps < 0 \/ req.Weight < 0

\* the violations a validator that reports them all names, in field order
NegativeFields(sets, reps, weight) ==
     (IF sets < 0 THEN <<"sets">> ELSE <<>>)
  \o (IF reps < 0 THEN <<"reps">> ELSE <<>>)
  \o (IF weight < 0 THEN <<"weight">> ELSE <<>>)

\* C1: a CreateWorkout whose exercise kind is unspecified fails, whatever the
\* other request fields are, returns no record, and leaves the store, its
\* record count and the next identifier as they were.
C1_UnspecifiedKindRejected ==
  [][(last'.op = "CreateWorkout" /\ Deref(last'.creq).ExerciseType = ExerciseUnspecified)
       => /\ last'.err # NoError
          /\ last'.out = <<>>
          /\ workouts' = workouts
          /\ MockGetWorkoutCount(workouts') = MockGetWorkoutCount(workouts)
          /\ nextID' = nextID]_vars

C1_Witness ==
  /\ CreateRan /\ CreateReq.ExerciseType = ExerciseUnspecified
  /\ CreateReq.Sets = 5 /\ CreateReq.Weight = 50 /\ CreateReq.Description = "a"
  /\ last.err # NoError
  /\ DOMAIN workouts # {}

\* C2 as stated: a CreateWorkout with a specified exercise kind and a negative
\* sets, reps or weight fails with a validation error naming every negative
\* field supplied, and returns no record.
C2_NegativeRejected ==
  (CreateRan /\ CreateReq.ExerciseType # ExerciseUnspecified /\ SuppliedNegative(CreateReq))
    => /\ last.err.kind = "validation"
       /\ last.err.fields = NegativeFields(CreateReq.Sets, CreateReq.Reps, CreateReq.Weight)
       /\ last.out = <<>>

\* C2 amended: a CreateWorkout with a specified exercise kind and a negative
\* sets, reps or weight returns no validation error (the overlay drops the
\* negative value before the validator runs, so the validator sees none);
\* the validator itself names every negative field of the record it is given.
C2_NegativeNeverReachesValidator ==
  /\ (CreateRan /\ CreateReq.ExerciseType # ExerciseUnspecified /\ SuppliedNegative(CreateReq))
       => /\ last.err = NoError
          /\ validateWorkoutDataWithErrValidator(last.out[1]) = NoError
  /\ \A s \in SetsValues, r \in RepsValues, w \in WeightValues :
       validateWorkoutDataWithErrValidator([Sets |-> s, Reps |-> r, Weight |-> w]).fields
         = NegativeFields(s, r, w)

C2_Witness ==
  /\ CreateOK
  /\ CreateReq.Sets < 0 /\ CreateReq.Reps < 0 /\ CreateReq.Weight < 0
  /\ last.out[1].ID \in DOMAIN workouts

\* C3: a CreateWorkout with a specified exercise kind and a negative sets, reps
\* or weight succeeds; each negative value is ignored, the record is persisted
\* with sets 3, reps 10, weight 0 in its place, and with status Planned.
C3_NegativeIgnored ==
  (CreateRan /\ CreateReq.ExerciseType # ExerciseUnspecified /\ SuppliedNegative(CreateReq))
    => /\ last.err = NoError
       /\ Len(last.out) = 1
       /\ last.out[1].ID \in DOMAIN workouts
       /\ workouts[last.out[1].ID] = last.out[1]
       /\ CreateReq.Sets < 0 => last.out[1].Sets = 3
       /\ CreateReq.Reps < 0 => last.out[1].Reps = 10
       /\ CreateReq.Weight < 0 => last.out[1].Weight = 0
       /\ last.out[1].Status = WorkoutStatusPlanned

C3_Witness ==
  /\ CreateOK
  /\ CreateReq.Sets = -5 /\ CreateReq.Reps = -10 /\ CreateReq.Weight = -50
  /\ workouts[last.out[1].ID].Sets = 3
  /\ workouts[last.out[1].ID].Reps = 10
  /\ workouts[last.out[1].ID].Weight = 0

\* the request that sets nothing but the exercise kind
OnlyKind(req) ==
  /\ req.Description = "" /\ req.Notes = ""
  /\ req.Difficulty = 0 /\ req.MuscleGroup = 0
  /\ req.Sets = 0 /\ req.Reps = 0 /\ req.Weight = 0

C8_GetAfterCreate ==
  [][(/\ last.op = "CreateWorkout" /\ last.err = NoError
      /\ last'.op = "GetWorkout" /\ last'.id = last.out[1].ID)
       => /\ last'.err = NoError
          /\ last'.out = last.out]_vars

C8_Witness ==
  /\ last.op = "GetWorkout" /\ last.err = NoError
  /\ last.id = nextID - 1
  /\ last.out[1].Description = "a" /\ last.out[1].Weight = 50
  /\ last.out[1].Difficulty = DifficultyBeast
  /\ last.out[1].CreatedAt = now - 1

(***************************************************************************)
(* Properties of UpdateWorkout (SpecUpdate)                                *)
(***************************************************************************)
UpdateOK == last.op = "UpdateWorkout" /\ last.err = NoError
UpdateReq == Deref(last.ureq)

\* C5: a successful UpdateWorkout leaves every optional field that is nil in
\* the request (description, difficulty, muscle group, status, sets, reps,
\* weight, notes) at the value the record had before; an update that supplies
\* only the weight leaves sets, reps, description and notes as they were.
C5_UpdateIsPartial ==
  [][(last'.op = "UpdateWorkout" /\ last'.err = NoError) =>
       LET req == Deref(last'.ureq)
           old == workouts[req.ID]
           new == workouts'[req.ID]
       IN /\ IsNil(req.Description) => new.Description = old.Description
          /\ IsNil(req.Difficulty) => new.Difficulty = old.Difficulty
          /\ IsNil(req.MuscleGroup) => new.MuscleGroup = old.MuscleGroup
          /\ IsNil(req.Status) => new.Status = old.Status /\ new.CompletedAt = old.CompletedAt
          /\ IsNil(req.Sets) => new.Sets = old.Sets
          /\ IsNil(req.Reps) => new.Reps = old.Reps
          /\ IsNil(req.Weight) => new.Weight = old.Weight
          /\ IsNil(req.Notes) => new.Notes = old.Notes]_vars

C5_Witness ==
  /\ UpdateOK
  /\ UpdateReq.Weight = Ptr(0)
  /\ IsNil(UpdateReq.Description) /\ IsNil(UpdateReq.Difficulty)
  /\ IsNil(UpdateReq.MuscleGroup) /\ IsNil(UpdateReq.Status)
  /\ IsNil(UpdateReq.Sets) /\ IsNil(UpdateReq.Reps) /\ IsNil(UpdateReq.Notes)
  /\ workouts[last.id].Weight = 0
  /\ workouts[last.id].Sets = 3 /\ workouts[last.id].Reps = 10
  /\ workouts[last.id].Description = "a" /\ workouts[last.id].Notes = "a"
  /\ workouts[last.id].Difficulty = DifficultyBeast
  /\ workouts[last.id].ExerciseType = Squat

\* C13: after a successful UpdateWorkout that supplies sets, reps and weight,
\* the record read back from the repository carries exactly the supplied sets,
\* reps and weight, a supplied 0 included.
C13_UpdateStoresSuppliedNumbers ==
  [][(last'.op = "UpdateWorkout" /\ last'.err = NoError) =>
       LET req == Deref(last'.ureq)
       IN (~IsNil(req.Sets) /\ ~IsNil(req.Reps) /\ ~IsNil(req.Weight))
            => /\ RepoGetErr(workouts', req.ID) = NoError
               /\ workouts'[req.ID].Sets = req.Sets[1]
               /\ workouts'[req.ID].Reps = req.Reps[1]
               /\ workouts'[req.ID].Weight = req.Weight[1]]_vars

C13_Witness ==
  /\ UpdateOK
  /\ UpdateReq.Sets = Ptr(0) /\ UpdateReq.Reps = Ptr(8) /\ UpdateReq.Weight = Ptr(0)
  /\ workouts[last.id].Sets = 0 /\ workouts[last.id].Reps = 8 /\ workouts[last.id].Weight = 0
  /\ workouts[last.id].Description = "a"

\* a request that supplies a negative sets, reps or weight
SuppliesNegative(req) ==
  \/ ~IsNil(req.Sets) /\ req.Sets[1] < 0
  \/ ~IsNil(req.Reps) /\ req.Reps[1] < 0
  \/ ~IsNil(req.Weight) /\ req.Weight[1] < 0

\* C15: an UpdateWorkout of an existing record that supplies a negative sets,
\* reps or weight fails, and the stored record keeps every field, the fields
\* the same request supplied validly included.
C15_NegativeUpdateRejected ==
  [][(/\ last'.op = "UpdateWorkout"
      /\ last'.id \in DOMAIN workouts
      /\ SuppliesNegative(Deref(last'.ureq)))
       => /\ last'.err # NoError
          /\ workouts' = workouts]_vars

C15_Witness ==
  /\ last.op = "UpdateWorkout" /\ last.err.kind = "validation"
  /\ last.id = 1 /\ 1 \in DOMAIN workouts
  /\ UpdateReq.ExerciseType = Squat
  /\ UpdateReq.Sets = Ptr(-5) /\ UpdateReq.Reps = Ptr(8) /\ UpdateReq.Weight = Ptr(0)
  /\ UpdateReq.Description = Ptr("")
  /\ workouts[1].ExerciseType = BenchPress
  /\ workouts[1].Sets = 3 /\ workouts[1].Reps = 10 /\ workouts[1].Weight = 50
  /\ workouts[1].Description = "a"

\* every violation of an update request, in the order of the checks
UpdateViolations(req) ==
     (IF req.ID <= 0 THEN <<"id">> ELSE <<>>)
  \o (IF req.ExerciseType = ExerciseUnspecified THEN <<"exercise_type">> ELSE <<>>)
  \o (IF ~IsNil(req.Sets) /\ req.Sets[1] < 0 THEN <<"sets">> ELSE <<>>)
  \o (IF ~IsNil(req.Reps) /\ req.Reps[1] < 0 THEN <<"reps">> ELSE <<>>)
  \o (IF ~IsNil(req.Weight) /\ req.Weight[1] < 0 THEN <<"weight">> ELSE <<>>)

\* C16: an UpdateWorkout with invalid inputs fails with an error that reports
\* every violation of the request, not only the first one.
C16_AllViolationsReported ==
  (last.op = "UpdateWorkout" /\ UpdateViolations(UpdateReq) # <<>>)
    => /\ last.err # NoError
       /\ last.err.fields = UpdateViolations(UpdateReq)

\* C17: after any sequence of CreateWorkout, UpdateWorkout and DeleteWorkout
\* calls, accepted or rejected, every stored record has sets >= 0, reps >= 0,
\* weight >= 0, a specified exercise kind and an identifier > 0.
C17_StoredRecordsValid ==
  \A id \in DOMAIN workouts :
    /\ workouts[id].Sets >= 0
    /\ workouts[id].Reps >= 0
    /\ workouts[id].Weight >= 0
    /\ workouts[id].ExerciseType # ExerciseUnspecified
    /\ workouts[id].ID > 0

C17_Witness ==
  /\ UpdateOK
  /\ UpdateReq.ExerciseType = Squat /\ UpdateReq.Sets = Ptr(0) /\ UpdateReq.Weight = Ptr(50)
  /\ deleted # {}
  /\ workouts[last.id].ExerciseType = Squat
  /\ workouts[last.id].Sets = 0 /\ workouts[last.id].Weight = 50

(***************************************************************************)
(* Properties of the record lifecycle (Spec)                               *)
(***************************************************************************)
\* C14: an UpdateWorkout or a DeleteWorkout of an identifier > 0 that is not
\* in the store fails with the not-found error of the pre-fetch and leaves the
\* store as it was: no record is created, modified or removed.
C14_AbsentIdRejected ==
  [][(/\ last'.op \in {"UpdateWorkout", "DeleteWorkout"}
      /\ last'.id > 0
      /\ last'.id \notin DOMAIN workouts)
       => /\ last'.err = Err("not_found")
          /\ workouts' = workouts
          /\ nextID' = nextID
          /\ deleted' = deleted]_vars

C14_Witness ==
  /\ last.op = "UpdateWorkout" /\ last.err = Err("not_found")
  /\ last.id = MaxWorkouts + 1
  /\ Cardinality(DOMAIN workouts) = 2

C14_WitnessDelete ==
  /\ last.op = "DeleteWorkout" /\ last.err = Err("not_found")
  /\ last.id \in deleted
  /\ DOMAIN workouts # {}

\* C6: the UpdateWorkout that first sets the status to Completed stamps the
\* completion time; from then on no step changes or clears the completion time
\* of the record, whatever statuses later updates set.
C6_CompletionStampedOnce ==
  [][/\ \A id \in DOMAIN workouts \cap DOMAIN workouts' :
          workouts[id].CompletedAt # NoTime
            => workouts'[id].CompletedAt = workouts[id].CompletedAt
     /\ (/\ last'.op = "UpdateWorkout" /\ last'.err = NoError
         /\ Deref(last'.ureq).Status = Ptr(WorkoutStatusCompleted)
         /\ workouts[last'.id].CompletedAt = NoTime)
          => /\ workouts'[last'.id].CompletedAt = now
             /\ workouts'[last'.id].CompletedAt # NoTime]_vars

C6_Witness ==
  /\ UpdateOK
  /\ UpdateReq.Status = Ptr(WorkoutStatusCompleted)
  /\ workouts[last.id].Status = WorkoutStatusCompleted
  /\ workouts[last.id].CompletedAt = 2
  /\ workouts[last.id].UpdatedAt = 4

\* C7: once DeleteWorkout(id) has succeeded, the identifier is not in the
\* store, GetWorkout(id) fails with not-found in every later state, and no
\* later CreateWorkout is given that identifier.
C7_DeletedStaysGone ==
  /\ \A id \in deleted :
       /\ id \notin DOMAIN workouts
       /\ GetWorkoutErr(workouts, id) = Err("not_found")
       /\ id < nextID
  /\ (last.op = "GetWorkout" /\ last.id \in deleted)
       => last.err = Err("not_found") /\ last.out = <<>>

C7_Witness ==
  /\ last.op = "GetWorkout" /\ last.id = 1 /\ last.id \in deleted
  /\ last.err = Err("not_found")
  /\ 2 \in DOMAIN workouts
  /\ workouts[2].CreatedAt > 2

\* the elements of a sequence
Elems(s) == {s[i] : i \in 1..Len(s)}

C10_CountIsStoreSize ==
  /\ MockGetWorkoutCount(workouts) = created - Cardinality(deleted)
  /\ MockGetWorkoutCount(workouts) = Cardinality(Rows(workouts))
  /\ last.op = "GetWorkoutCount" => last.count = created - Cardinality(deleted)

C10_Witness ==
  /\ last.op = "GetWorkoutCount" /\ last.count = 1
  /\ created = 2 /\ Cardinality(deleted) = 1
  /\ \E id \in DOMAIN workouts : workouts[id].Status = WorkoutStatusCompleted

(***************************************************************************)
(* Properties of the queries (SpecQuery)                                   *)
(***************************************************************************)
\* C11: over every store, GetHighIntensityWorkouts succeeds and returns each
\* stored record whose difficulty is Advanced or Beast and whose weight is
\* >= 50 exactly once and no other record; a Beginner or Intermediate record
\* is never returned whatever its weight; the result may be empty.
C11_HighIntensityExact ==
  /\ \A impl \in Repositories :
       \A s \in HighIntensityResults(impl, workouts) :
         /\ Elems(s) = {w \in Rows(workouts) :
                          w.Difficulty \in {DifficultyAdvanced, DifficultyBeast} /\ w.Weight >= 50}
         /\ Len(s) = Cardinality(Elems(s))
  /\ last.op = "GetHighIntensityWorkouts" =>
       /\ last.err = NoError
       /\ Elems(last.out) = {w \in Rows(workouts) : w.Difficulty >= DifficultyAdvanced /\ w.Weight >= 50}
       /\ \A w \in Elems(last.out) :
            w.Difficulty \notin {DifficultyBeginner, DifficultyIntermediate}

C11_Witness ==
  /\ last.op = "GetHighIntensityWorkouts"
  /\ Len(last.out) = 1
  /\ last.out[1].Difficulty = DifficultyAdvanced /\ last.out[1].Weight = 50
  /\ \E w \in Rows(workouts) : w.Difficulty = DifficultyBeginner /\ w.Weight = 80

\* a store whose records are all left out: the result is empty, without error
C11_WitnessEmpty ==
  /\ last.op = "GetHighIntensityWorkouts" /\ last.err = NoError
  /\ last.out = <<>>
  /\ \E w \in Rows(workouts) : w.Difficulty = DifficultyBeast /\ w.Weight = 49

\* C12: GetWorkoutStats("today") on a store that holds no record succeeds and
\* returns total 0, completed 0, skipped 0, weight volume 0 and a muscle-group
\* mapping that is present and empty.
C12_EmptyStoreStats ==
  (last.op = "GetWorkoutStats" /\ last.period = "today" /\ DOMAIN workouts = {})
    => /\ last.err = NoError
       /\ DOMAIN last.stats = {"total_workouts", "completed_workouts", "skipped_workouts",
                               "total_weight_lifted", "muscle_group_stats"}
       /\ last.stats.total_workouts = 0
       /\ last.stats.completed_workouts = 0
       /\ last.stats.skipped_workouts = 0
       /\ last.stats.total_weight_lifted = 0
       /\ DOMAIN last.stats.muscle_group_stats = {}

\* the records the listing is to select, for each of the 8 presence patterns of
\* the status, difficulty and muscle-group filters
SelectedByPrecedence(S, sf, df, mf) ==
  CASE ~IsNil(sf) /\ ~IsNil(df) /\ ~IsNil(mf) -> {w \in S : w.Status = sf[1] /\ w.Difficulty = df[1]}
    [] ~IsNil(sf) /\ ~IsNil(df) /\ IsNil(mf) -> {w \in S : w.Status = sf[1] /\ w.Difficulty = df[1]}
    [] ~IsNil(sf) /\ IsNil(df) /\ ~IsNil(mf) -> {w \in S : w.Status = sf[1] /\ w.MuscleGroup = mf[1]}
    [] ~IsNil(sf) /\ IsNil(df) /\ IsNil(mf) -> {w \in S : w.Status = sf[1]}
    [] IsNil(sf) /\ ~IsNil(df) /\ ~IsNil(mf) -> {w \in S : w.Difficulty = df[1] /\ w.MuscleGroup = mf[1]}
    [] IsNil(sf) /\ ~IsNil(df) /\ IsNil(mf) -> {w \in S : w.Difficulty = df[1]}
    [] IsNil(sf) /\ IsNil(df) /\ ~IsNil(mf) -> {w \in S : w.MuscleGroup = mf[1]}
    [] IsNil(sf) /\ IsNil(df) /\ IsNil(mf) -> S

NewestFirst(impl) ==
  \A f \in QueryFilters :
    \A s \in ListWorkoutsResults(impl, workouts, f[1], f[2], f[3]) :
      \A i, j \in 1..Len(s) : s[i].CreatedAt > s[j].CreatedAt => i < j

\* C19: the sequence ListWorkouts returns is ordered by creation time, most
\* recent first: of any two returned records the one created later comes
\* earlier, for every filter combination and either repository.
C19_ListNewestFirst ==
  /\ \A impl \in Repositories : NewestFirst(impl)
  /\ last.op = "ListWorkouts" =>
       \A i, j \in 1..Len(last.out) : last.out[i].CreatedAt > last.out[j].CreatedAt => i < j

\* the storage-backed repository alone orders its listings
GORMListNewestFirst == NewestFirst("gorm")

(***************************************************************************)
(* Properties of the repository operations (SpecRepo)                      *)
(***************************************************************************)
\* C20: the repository's GetWorkoutByID, UpdateWorkout and DeleteWorkout of an
\* identifier that is not in the store each fail with the not-found error
\* and leave the store as it was: DeleteWorkout does not report success and
\* UpdateWorkout does not insert a record.
C20_RepoAbsentIdNotFound ==
  [][(/\ last'.op \in {"RepoGetWorkoutByID", "RepoUpdateWorkout", "RepoDeleteWorkout"}
      /\ last'.id \notin DOMAIN workouts)
       => /\ last'.err = Err("not_found")
          /\ workouts' = workouts]_vars

\* the in-memory repository alone: every operation on an absent identifier
\* fails with not-found and leaves the store as it was
MockAbsentIdNotFound ==
  [][(/\ last'.op \in {"RepoGetWorkoutByID", "RepoUpdateWorkout", "RepoDeleteWorkout"}
      /\ last'.impl = "mock"
      /\ last'.id \notin DOMAIN workouts)
       => /\ last'.err = Err("not_found")
          /\ workouts' = workouts]_vars

(***************************************************************************)
(* Properties of the storage-backed repository under faults (SpecTx)       *)
(***************************************************************************)
TxOps == {"TxCreateWorkout", "TxUpdateWorkout", "TxDeleteWorkout"}

C22_NoErrorSwallowed ==
  /\ last.panic # "none" => last.err # NoError
  /\ last.op = "CreateWorkout" => (last.err # NoError \/ Len(last.out) = 1)

\* C23: for every store content and period, GetWorkoutStats succeeds and returns
\* the number of records in the time window, the numbers of Completed and of
\* Skipped records in it, the sum of weight x sets x reps over its Completed
\* records, and a muscle-group mapping that counts every record in the window.
C23_StatsMatchWindow ==
  last.op = "GetWorkoutStats" =>
    LET inWindow == {w \in Rows(workouts) : w.CreatedAt >= TimeFilter(last.period, now)}
        completed == RowsWithStatus(inWindow, WorkoutStatusCompleted)
        groups == {w.MuscleGroup : w \in inWindow}
    IN /\ last.err = NoError
       /\ last.stats.total_workouts = Cardinality(inWindow)
       /\ last.stats.completed_workouts = Cardinality(completed)
       /\ last.stats.skipped_workouts =
            Cardinality(RowsWithStatus(inWindow, WorkoutStatusSkipped))
       /\ last.stats.total_weight_lifted = SumVolume(completed)
       /\ "muscle_group_stats" \in DOMAIN last.stats
       /\ last.stats.muscle_group_stats =
            [g \in groups |-> Cardinality({w \in inWindow : w.MuscleGroup = g})]

(***************************************************************************)
(* Properties of the input checks (SpecInput)                              *)
(***************************************************************************)
\* the handler call that has just returned was given malformed input
MalformedInput ==
  \/ last.op = "CreateWorkout" /\ Deref(last.creq).ExerciseType = ExerciseUnspecified
  \/ last.op \in {"GetWorkout", "DeleteWorkout"} /\ last.id <= 0
  \/ last.op = "UpdateWorkout" /\
       (\/ Deref(last.ureq).ID <= 0
        \/ Deref(last.ureq).ExerciseType = ExerciseUnspecified
        \/ SuppliesNegative(Deref(last.ureq)))

\* C24: a CreateWorkout with an unspecified kind, a GetWorkout or DeleteWorkout
\* with an identifier <= 0, and an UpdateWorkout with an identifier <= 0, an
\* unspecified kind or a negative supplied sets, reps or weight fail with an
\* error without any repository operation having been invoked.
C24_MalformedRejectedBeforeIO ==
  MalformedInput => (last.err # NoError /\ last.calls = <<>>)

C24_Witness ==
  /\ last.op = "UpdateWorkout" /\ Deref(last.ureq).ID = 1 /\ 1 \in DOMAIN workouts
  /\ Deref(last.ureq).ExerciseType = Squat
  /\ Deref(last.ureq).Sets = Ptr(5) /\ Deref(last.ureq).Weight = Ptr(-50)
  /\ last.err # NoError /\ last.calls = <<>>

(***************************************************************************)
(* Properties of the status of a record (Spec)                             *)
(***************************************************************************)
\* C25: an UpdateWorkout of an existing record succeeds whatever the stored
\* status and the requested one (Planned, InProgress, Completed or Skipped,
\* backward transitions included) and the stored status becomes the requested
\* one; an UpdateWorkout without a status leaves the stored status as it was.
C25_AnyStatusTransition ==
  [][(last'.op = "UpdateWorkout" /\ last'.id \in DOMAIN workouts
        /\ validateUpdateInput(Deref(last'.ureq).ID, Deref(last'.ureq).ExerciseType,
                               Deref(last'.ureq).Sets, Deref(last'.ureq).Reps,
                               Deref(last'.ureq).Weight) = NoError) =>
       LET req == Deref(last'.ureq)
       IN /\ last'.err = NoError
          /\ req.ID \in DOMAIN workouts'
          /\ workouts'[req.ID].Status =
               IF IsNil(req.Status) THEN workouts[req.ID].Status ELSE Deref(req.Status)]_vars

\* a Completed record has been set back to Planned
C25_Witness ==
  /\ UpdateOK
  /\ UpdateReq.Status = Ptr(WorkoutStatusPlanned)
  /\ workouts[last.id].Status = WorkoutStatusPlanned
  /\ workouts[last.id].CompletedAt # NoTime

(***************************************************************************)
(* Properties of ListWorkouts over any store (SpecList)                    *)
(***************************************************************************)
\* C26: ListWorkouts returns the records the repository delivers for the
\* filters, in the repository's order, without those of unspecified kind or
\* identifier <= 0; it succeeds also when no record remains; every record it
\* returns passes the check GetWorkout makes after retrieval.
C26_ListDropsInvalid ==
  last.op = "ListWorkouts" =>
    /\ last.err = NoError
    /\ last.delivered \in RepoListWorkouts(last.impl, workouts,
                                           last.filter[1], last.filter[2], last.filter[3])
    /\ last.out = SelectSeq(last.delivered,
                            LAMBDA w : ~(w.ExerciseType = ExerciseUnspecified \/ w.ID <= 0))
    /\ \A i \in 1..Len(last.out) : GetWorkoutErr(workouts, last.out[i].ID) = NoError

\* of three delivered records one has no kind and one a negative identifier
C26_Witness ==
  /\ last.op = "ListWorkouts" /\ last.err = NoError
  /\ Len(last.delivered) = 3 /\ Len(last.out) = 1
  /\ \E i \in 1..3 : last.delivered[i].ExerciseType = ExerciseUnspecified
  /\ \E i \in 1..3 : last.delivered[i].ID <= 0 /\ last.delivered[i].ExerciseType = BenchPress

\* every delivered record is dropped and the call succeeds
C26_WitnessNoneLeft ==
  /\ last.op = "ListWorkouts" /\ last.err = NoError
  /\ Len(last.delivered) > 0 /\ last.out = <<>>

(***************************************************************************)
(* Properties of concurrent handler calls (SpecConc)                       *)
(***************************************************************************)
OptionalFields ==
  {"Description", "Difficulty", "MuscleGroup", "Status", "Sets", "Reps", "Weight", "Notes"}

\* the optional fields a request supplies
Supplied(req) == {f \in OptionalFields : ~IsNil(req[f])}

\* task t is an UpdateWorkout that has returned success
UpdateReturnedOK(t) ==
  tasks[t].pc = "done" /\ tasks[t].op = "UpdateWorkout" /\ tasks[t].err = NoError

\* C27: when two UpdateWorkout calls on the same existing record that supply
\* disjoint fields have both returned success, in whatever order their fetches
\* and writes were interleaved, the stored record carries the values of both.
C27_ConcurrentUpdatesBothApply ==
  (/\ UpdateReturnedOK(1) /\ UpdateReturnedOK(2)
   /\ tasks[1].id = tasks[2].id
   /\ Supplied(Deref(tasks[1].ureq)) \cap Supplied(Deref(tasks[2].ureq)) = {})
  => /\ tasks[1].id \in DOMAIN workouts
     /\ \A t \in Tasks : \A f \in Supplied(Deref(tasks[t].ureq)) :
          workouts[tasks[t].id][f] = Deref(Deref(tasks[t].ureq)[f])

\* C28: once a DeleteWorkout of an identifier has returned success the record
\* is never in the store again, whatever a concurrent UpdateWorkout that
\* fetched it before does afterwards: that UpdateWorkout fails and a later
\* GetWorkout of the identifier fails with not-found.
C28_DeletedNeverReappears ==
  \A id \in deleted :
    /\ id \notin DOMAIN workouts
    /\ (last.op = "UpdateWorkout" /\ last.id = id) => last.err # NoError
    /\ (last.op = "GetWorkout" /\ last.id = id) => last.err = Err("not_found")

\* C29: after any sequence of CreateWorkout, UpdateWorkout and DeleteWorkout
\* calls from the empty store, every stored record whose status is Completed
\* has a completion time, and a record has one only if it is Completed or
\* had the time before the step, so a record never Completed has none.
C29_CompletedAtFollowsStatus ==
  [][\A id \in DOMAIN workouts' :
       /\ workouts'[id].Status = WorkoutStatusCompleted => workouts'[id].CompletedAt # NoTime
       /\ workouts'[id].CompletedAt # NoTime =>
            \/ workouts'[id].Status = WorkoutStatusCompleted
            \/ id \in DOMAIN workouts /\ workouts[id].CompletedAt # NoTime]_vars

\* one record completed by an update, another skipped and never completed
C29_Witness ==
  /\ UpdateOK
  /\ \E w \in Rows(workouts) : w.Status = WorkoutStatusCompleted /\ w.CompletedAt # NoTime
  /\ \E w \in Rows(workouts) : w.Status = WorkoutStatusSkipped /\ w.CompletedAt = NoTime

(***************************************************************************)
(* The two repositories compared (SpecQuery)                               *)
(***************************************************************************)
\* C30: for every store content and each of the 8 presence patterns of the
\* status, difficulty and muscle-group filters, MockWorkoutRepository's and
\* GORMRepository's ListWorkouts return the same set of records.
C30_ListImplementationsAgree ==
  last.op = "ListWorkouts" =>
    \A impl \in Repositories :
      \A s \in RepoListWorkouts(impl, workouts, last.filter[1], last.filter[2], last.filter[3]) :
        Elems(s) = Elems(last.delivered)

====
